---- MODULE Spec2Model ----
(***************************************************************************)
(* Model of src/src/transformer.py: the attention / masking subsystem and  *)
(* the autoregressive generation loop of the decoder-only Transformer.     *)
(*                                                                         *)
(* Tensors are records [shape, data]: data is the row-major (contiguous)   *)
(* sequence of the elements, shape the list of dimension sizes.  permute   *)
(* moves elements, reshape re-reads the row-major order under a new shape, *)
(* repeat tiles the whole tensor along the leading axis: each is modelled  *)
(* by what torch computes, on indices.                                     *)
(***************************************************************************)
EXTENDS Integers, Sequences, FiniteSets, TLC

VARIABLES call, result, pc, step, output_ids, decoder_mask, gen

vars == <<call, result, pc, step, output_ids, decoder_mask, gen>>

(***************************************************************************)
(* Bounds of the model.                                                    *)
(***************************************************************************)
MaxBatch == 2
MaxLen == 3
MaxHeads == 2
MaxSubDim == 2
MaxDModel == 2
MaxLayers == 2
MaxAttnLen == 2
MaxAttnDim == 2
MaxOffset == 1
ExpBits == 16
MaxT == 3
MaxLogit == 1

(***************************************************************************)
(* Python's None and optional arguments.                                   *)
(***************************************************************************)
None == [none |-> TRUE]
Some(v) == [none |-> FALSE, val |-> v]
Option(S) == {None} \cup {Some(v) : v \in S}

(***************************************************************************)
(* Tensor primitives.                                                      *)
(***************************************************************************)
RECURSIVE Numel(_)
Numel(shape) ==
    IF shape = <<>> THEN 1 ELSE Head(shape) * Numel(Tail(shape))

\* row-major offset of the index tuple idx (0-based) in a tensor of this shape
RECURSIVE Ravel(_, _)
Ravel(shape, idx) ==
    IF shape = <<>> THEN 0
    ELSE Head(idx) * Numel(Tail(shape)) + Ravel(Tail(shape), Tail(idx))

\* the index tuple (0-based) at row-major offset k
RECURSIVE Unravel(_, _)
Unravel(shape, k) ==
    IF shape = <<>> THEN <<>>
    ELSE <<k \div Numel(Tail(shape))>>
             \o Unravel(Tail(shape), k % Numel(Tail(shape)))

At(t, idx) == t.data[Ravel(t.shape, idx) + 1]

\* a function on 1..n as the sequence of its values
AsSeq(f) == f \o <<>>

\* the index tuple of the k-th element (k from 1) in row-major order
Idx(shape, k) == Unravel(shape, k - 1)

\* Tensor.reshape / Tensor.view: same elements in row-major order, new shape
Reshape(t, shape) == [shape |-> shape, data |-> t.data]

\* Tensor.permute(perm): axis i of the result is axis perm[i] of t (0-based)
Permute(t, perm) ==
    LET n == Len(perm)
        nshape == AsSeq([i \in 1..n |-> t.shape[perm[i] + 1]])
        Old(nidx) == [d \in 1..n |->
                        nidx[CHOOSE i \in 1..n : perm[i] + 1 = d]]
    IN [shape |-> nshape,
        data |-> AsSeq([k \in 1..Numel(nshape) |->
                          At(t, Old(Idx(nshape, k)))])]

\* Tensor.repeat(n, 1, 1): the whole tensor tiled n times along axis 0
Repeat0(t, n) ==
    LET nshape == <<t.shape[1] * n>> \o Tail(t.shape)
        m == Numel(t.shape)
    IN [shape |-> nshape,
        data |-> AsSeq([k \in 1..(m * n) |-> t.data[((k - 1) % m) + 1]])]

\* torch.tril(torch.ones(n, n))
TrilOnes(n) ==
    [shape |-> <<n, n>>,
     data |-> AsSeq([k \in 1..(n * n) |->
                       LET idx == Idx(<<n, n>>, k)
                       IN IF idx[2] <= idx[1] THEN 1 ELSE 0])]

\* elementwise product of two tensors of the same shape
Mul(a, b) ==
    [shape |-> a.shape,
     data |-> AsSeq([k \in 1..Numel(a.shape) |-> a.data[k] * b.data[k]])]

RECURSIVE SeqMax(_)
SeqMax(s) ==
    IF Len(s) = 1 THEN s[1]
    ELSE LET m == SeqMax(Tail(s)) IN IF s[1] >= m THEN s[1] ELSE m

(***************************************************************************)
(* MultiHeadAttention.create_causal_mask                                   *)
(* x: optional reference tensor [batch, L, dmodel] (only shape and device  *)
(* are read); batch_size, seq_len, device: optional.                       *)
(***************************************************************************)
Raise(e) == [kind |-> e]
Return(v) == [kind |-> "ok", value |-> v]

create_causal_mask(x, batch_size, seq_len, device) ==
    IF x.none /\ batch_size.none /\ seq_len.none
    THEN Raise("ValueError")
    ELSE LET bs == IF ~x.none THEN Some(x.val.shape[1]) ELSE batch_size
             sl == IF ~x.none THEN Some(x.val.shape[2]) ELSE seq_len
         IN IF device.none /\ x.none
            THEN Raise("ValueError")
            ELSE \* torch.ones(None, None) and .repeat(None, 1, 1) are
                 \* rejected by torch with a TypeError
                 IF sl.none \/ bs.none
                 THEN Raise("TypeError")
                 ELSE Return(Repeat0(
                          Reshape(TrilOnes(sl.val), <<1, sl.val, sl.val>>),
                          bs.val))

\* a mask builder that excludes padded keys but not padded queries
create_self_attention_mask_keys_only(sequence_length, causal) ==
    LET batch_size == Len(sequence_length)
        max_sequence_length == SeqMax(sequence_length)
        shape == <<batch_size, max_sequence_length, max_sequence_length>>
    IN [shape |-> shape,
        data |-> AsSeq([k \in 1..Numel(shape) |->
                          LET idx == Idx(shape, k)
                          IN IF /\ idx[3] < sequence_length[idx[1] + 1]
                                /\ (causal => idx[3] <= idx[2])
                             THEN 1 ELSE 0])]

(***************************************************************************)
(* create_self_attention_mask(sequence_length, causal)                     *)
(* sequence_length is the vector of valid lengths, one per example.        *)
(***************************************************************************)
create_self_attention_mask(sequence_length, causal) ==
    LET batch_size == Len(sequence_length)
        max_sequence_length == SeqMax(sequence_length)
        \* (r < sequence_length.unsqueeze(1)).float().unsqueeze(1)
        rshape == <<batch_size, 1, max_sequence_length>>
        row == [shape |-> rshape,
                data |-> AsSeq([k \in 1..Numel(rshape) |->
                                  LET idx == Idx(rshape, k)
                                  IN IF idx[3] < sequence_length[idx[1] + 1]
                                     THEN 1 ELSE 0])]
        \* attention_mask.transpose(1, 2)
        col == Permute(row, <<0, 2, 1>>)
        \* broadcast product [B,1,L] * [B,L,1]
        mshape == <<batch_size, max_sequence_length, max_sequence_length>>
        attention_mask ==
            [shape |-> mshape,
             data |-> AsSeq([k \in 1..Numel(mshape) |->
                               LET idx == Idx(mshape, k)
                               IN At(row, <<idx[1], 0, idx[3]>>)
                                    * At(col, <<idx[1], idx[2], 0>>)])]
        causal_mask == create_causal_mask(None, Some(batch_size),
                                          Some(max_sequence_length),
                                          Some("cpu"))
    IN IF causal THEN Mul(attention_mask, causal_mask.value)
       ELSE attention_mask

(***************************************************************************)
(* SinusoidalPositionalEmbedding.forward: only the length guard matters    *)
(* to shapes; the additive encoding keeps the shape of x.                  *)
(***************************************************************************)
num_positions == 1024

positional_encoding(xshape) ==
    IF xshape[2] > num_positions THEN Raise("ValueError") ELSE Return(xshape)

\* torch broadcasting of a mask of shape mshape against scores of shape sshape
Broadcastable(mshape, sshape) ==
    /\ Len(mshape) = Len(sshape)
    /\ \A d \in 1..Len(sshape) : mshape[d] = sshape[d] \/ mshape[d] = 1

(***************************************************************************)
(* Transformer.forward, at the level of shapes and of the mask: the        *)
(* embedding gives [batch, seq_len, dmodel], the mask is built from the    *)
(* valid lengths alone, and every decoder layer applies the mask, repeated *)
(* head_num times, to scores of shape [batch*head_num, seq_len, seq_len]   *)
(* with masked_fill, which needs the two to broadcast.                     *)
(***************************************************************************)
Transformer_forward(ids_shape, target_sequence_length, dmodel, nhead, layers) ==
    LET batch_size == ids_shape[1]
        seq_len == ids_shape[2]
        emb == positional_encoding(<<batch_size, seq_len, dmodel>>)
        dmask == create_self_attention_mask(target_sequence_length,
                                                   TRUE)
        folded_mask == Repeat0(dmask, nhead)
        scores_shape == <<batch_size * nhead, seq_len, seq_len>>
    IN IF emb.kind # "ok" THEN emb
       ELSE [kind |-> IF layers = 0
                        \/ Broadcastable(folded_mask.shape, scores_shape)
                      THEN "ok" ELSE "RuntimeError",
             hidden_shape |-> emb.value,
             decoder_mask |-> dmask]

(***************************************************************************)
(* ScaledDotProductAttention.forward on [n, Lq, d], [n, Lk, d],            *)
(* [n, Lk, dv] and an optional mask [n, Lq, Lk].                           *)
(* Arithmetic is integer: a score is the dot product divided by the        *)
(* integer square root of dk; a softmax weight is the exact fraction       *)
(* <<numerator, denominator>> of base-2 exponentials with ExpBits          *)
(* fractional bits, so that an exponent below -ExpBits underflows to 0 as  *)
(* exp does in floating point, and equal scores get equal weights.         *)
(***************************************************************************)
Sentinel == 0 - 1000000000

ISqrt(n) == CHOOSE r \in 0..n : r * r <= n /\ (r + 1) * (r + 1) > n

RECURSIVE Pow2(_)
Pow2(e) == IF e = 0 THEN 1 ELSE 2 * Pow2(e - 1)

\* exp(d) for d <= 0, in units of 2^-ExpBits
Exp(d) == IF 0 - d > ExpBits THEN 0 ELSE Pow2(ExpBits + d)

RECURSIVE SeqSum(_)
SeqSum(s) == IF Len(s) = 0 THEN 0 ELSE s[1] + SeqSum(Tail(s))

\* scores.masked_fill(mask == 0, fill)
masked_fill(t, mask, fill) ==
    [shape |-> t.shape,
     data |-> AsSeq([k \in 1..Numel(t.shape) |->
                       IF mask.data[k] = 0 THEN fill ELSE t.data[k]])]

\* torch.softmax(scores, dim=-1) of a 3-d tensor
softmax(scores) ==
    LET Lk == scores.shape[3]
        rows == scores.shape[1] * scores.shape[2]
        Row(r) == SubSeq(scores.data, (r - 1) * Lk + 1, r * Lk)
        \* per row: the numerators and their sum
        soft == AsSeq([r \in 1..rows |->
                         LET m == SeqMax(Row(r))
                             nums == AsSeq([j \in 1..Lk |->
                                              Exp(Row(r)[j] - m)])
                         IN [nums |-> nums, den |-> SeqSum(nums)]])
    IN [shape |-> scores.shape,
        data |-> AsSeq([k \in 1..Numel(scores.shape) |->
                          LET r == ((k - 1) \div Lk) + 1
                          IN <<soft[r].nums[((k - 1) % Lk) + 1],
                               soft[r].den>>])]

Zero == <<0, 1>>

\* query.matmul(key.transpose(-2, -1)) / math.sqrt(dk)
scaled_scores(query, key) ==
    LET dk == query.shape[3]
        shape == <<query.shape[1], query.shape[2], key.shape[2]>>
    IN [shape |-> shape,
        data |-> AsSeq([k \in 1..Numel(shape) |->
                          LET idx == Idx(shape, k)
                          IN SeqSum([d \in 1..dk |->
                                       At(query, <<idx[1], idx[2], d - 1>>)
                                         * At(key, <<idx[1], idx[3], d - 1>>)])
                               \div ISqrt(dk)])]

\* attention.matmul(value): the nonzero weights of a row share the
\* denominator the softmax gave the row
matmul_value(attention, soft, value) ==
    LET Lk == value.shape[2]
        shape == <<attention.shape[1], attention.shape[2], value.shape[3]>>
    IN [shape |-> shape,
        data |-> AsSeq([k \in 1..Numel(shape) |->
                          LET idx == Idx(shape, k)
                          IN <<SeqSum([j \in 1..Lk |->
                                  At(attention, <<idx[1], idx[2], j - 1>>)[1]
                                    * At(value, <<idx[1], j - 1, idx[3]>>)]),
                               At(soft, <<idx[1], idx[2], 0>>)[2]>>])]

\* an attention that fills the scores before the softmax only
SDPA_forward_single_fill(query, key, value, mask) ==
    LET raw == scaled_scores(query, key)
        scores == IF mask.none THEN raw
                  ELSE masked_fill(raw, mask.val, Sentinel)
        attention == softmax(scores)
        y == matmul_value(attention, attention, value)
    IN [y |-> y, attention |-> attention]

SDPA_forward(query, key, value, mask) ==
    LET raw == scaled_scores(query, key)
        scores == IF mask.none THEN raw
                  ELSE masked_fill(raw, mask.val, Sentinel)
        soft == softmax(scores)
        attention == IF mask.none THEN soft
                     ELSE masked_fill(soft, mask.val, Zero)
        y == matmul_value(attention, soft, value)
    IN [y |-> y, attention |-> attention]

(***************************************************************************)
(* MultiHeadAttention: folding heads into the batch axis and back.         *)
(***************************************************************************)
\* a folding that re-reads the flat buffer without moving the head axis
reshape_to_batches_flat(x, head_num) ==
    Reshape(x, <<x.shape[1] * head_num, x.shape[2],
                 x.shape[3] \div head_num>>)

reshape_to_batches(x, head_num) ==
    LET batch_size == x.shape[1]
        seq_len == x.shape[2]
        in_feature == x.shape[3]
        sub_dim == in_feature \div head_num
    IN Reshape(Permute(Reshape(x, <<batch_size, seq_len, head_num, sub_dim>>),
                       <<0, 2, 1, 3>>),
               <<batch_size * head_num, seq_len, sub_dim>>)

reshape_from_batches(x, head_num) ==
    LET batch_size == x.shape[1] \div head_num
        seq_len == x.shape[2]
        in_feature == x.shape[3]
        out_dim == in_feature * head_num
    IN Reshape(Permute(Reshape(x, <<batch_size, head_num, seq_len,
                                    in_feature>>),
                       <<0, 2, 1, 3>>),
               <<batch_size, seq_len, out_dim>>)

\* an unfolding that reads the folded axis head-major
reshape_alignments_head_major(alignments, head_num) ==
    LET batch_head == alignments.shape[1]
        len1 == alignments.shape[2]
        len2 == alignments.shape[3]
        batch_size == batch_head \div head_num
    IN Permute(Reshape(Permute(alignments, <<1, 2, 0>>),
                       <<len1, len2, head_num, batch_size>>),
               <<3, 2, 0, 1>>)

reshape_alignments(alignments, head_num) ==
    LET batch_head == alignments.shape[1]
        len1 == alignments.shape[2]
        len2 == alignments.shape[3]
        batch_size == batch_head \div head_num
    IN Permute(Reshape(Permute(alignments, <<1, 2, 0>>),
                       <<len1, len2, batch_size, head_num>>),
               <<2, 3, 0, 1>>)

\* nn.Linear(in_features, in_features): the learned parameters are external;
\* the model instantiates them with the identity weight and a bias b.
Linear(b, t) ==
    [shape |-> t.shape,
     data |-> AsSeq([k \in 1..Numel(t.shape) |-> t.data[k] + b])]

\* the same layer applied to the fractions the attention returns
LinearFrac(b, t) ==
    [shape |-> t.shape,
     data |-> AsSeq([k \in 1..Numel(t.shape) |->
                       <<t.data[k][1] + b * t.data[k][2], t.data[k][2]>>])]

\* the mask as MultiHeadAttention.forward hands it to the attention
repeat_mask(mask, head_num) ==
    IF mask.none THEN None ELSE Some(Repeat0(mask.val, head_num))

MHA_forward(q_in, k_in, v_in, mask_in, head_num, bias) ==
    LET q == reshape_to_batches(Linear(bias, q_in), head_num)
        k == reshape_to_batches(Linear(bias, k_in), head_num)
        v == reshape_to_batches(Linear(bias, v_in), head_num)
        mask == repeat_mask(mask_in, head_num)
        att == SDPA_forward(q, k, v, mask)
        y == LinearFrac(bias, reshape_from_batches(att.y, head_num))
    \* y and alignments are returned; q, mask and attention are the locals
    \* of the call, kept for inspection
    IN [y |-> y,
        alignments |-> reshape_alignments(att.attention, head_num),
        q |-> q, mask |-> mask, attention |-> att.attention]

(***************************************************************************)
(* Inputs.                                                                 *)
(***************************************************************************)
Lengths(maxlen) == UNION {[1..b -> 1..maxlen] : b \in 1..MaxBatch}

RefTensors ==
    {[shape |-> <<b, l, d>>, device |-> "cpu"] :
        b \in 1..MaxBatch, l \in 1..MaxLen, d \in 1..MaxDModel}

Idle == call.op = "none" /\ pc = "idle"

GenUnchanged == UNCHANGED <<pc, step, output_ids, decoder_mask, gen>>

Init ==
    /\ call = [op |-> "none"]
    /\ result = None
    /\ pc = "idle"
    /\ step = 0
    /\ output_ids = <<>>
    /\ decoder_mask = None
    /\ gen = None

(***************************************************************************)
(* One call of a mask builder or of Transformer.forward.                   *)
(***************************************************************************)
CallCreateSelfAttentionMask ==
    /\ Idle
    /\ \E sl \in Lengths(MaxLen), causal \in BOOLEAN :
         /\ call' = [op |-> "create_self_attention_mask",
                     sequence_length |-> sl, causal |-> causal]
         /\ result' = create_self_attention_mask(sl, causal)
    /\ GenUnchanged

CallCreateCausalMask ==
    /\ Idle
    /\ \E x \in Option(RefTensors), bs \in Option(1..MaxBatch),
          sl \in Option(1..MaxLen), dev \in Option({"cpu"}) :
         /\ call' = [op |-> "create_causal_mask", x |-> x,
                     batch_size |-> bs, seq_len |-> sl, device |-> dev]
         /\ result' = create_causal_mask(x, bs, sl, dev)
    /\ GenUnchanged

CallTransformerForward ==
    /\ Idle
    /\ \E b \in 1..MaxBatch, seq_len \in 1..MaxLen, nhead \in 1..MaxHeads,
          sub \in 1..MaxSubDim, layers \in 1..MaxLayers :
         \E sl \in [1..b -> 1..seq_len] :
            /\ call' = [op |-> "forward", ids_shape |-> <<b, seq_len>>,
                        target_sequence_length |-> sl,
                        dmodel |-> nhead * sub, nhead |-> nhead,
                        decoder_layers |-> layers]
            /\ result' = Transformer_forward(<<b, seq_len>>, sl, nhead * sub,
                                             nhead, layers)
    /\ GenUnchanged

NextMask ==
    \/ CallCreateSelfAttentionMask
    \/ CallCreateCausalMask
    \/ CallTransformerForward

SpecMask == Init /\ [][NextMask]_vars

(***************************************************************************)
(* C1: create_self_attention_mask returns a [batch, L, L] mask,            *)
(* L = max(valid_length), whose entry [b,i,j] is 1 exactly when            *)
(* i < valid_length[b], j < valid_length[b] and (if causal) j <= i, and    *)
(* is 0 otherwise.                                                         *)
(***************************************************************************)
MaskCorrect ==
    call.op = "create_self_attention_mask" =>
        LET vl == call.sequence_length
            B == Len(vl)
            L == SeqMax(vl)
        IN /\ result.shape = <<B, L, L>>
           /\ Len(result.data) = B * L * L
           /\ \A b \in 0..(B - 1), i \in 0..(L - 1), j \in 0..(L - 1) :
                At(result, <<b, i, j>>) =
                    IF /\ i < vl[b + 1]
                       /\ j < vl[b + 1]
                       /\ (call.causal => j <= i)
                    THEN 1 ELSE 0

\* a causal mask of a batch whose examples have different lengths
MaskCorrectWitness ==
    /\ call.op = "create_self_attention_mask"
    /\ call.causal
    /\ call.sequence_length = <<1, 3>>
    /\ At(result, <<0, 1, 1>>) = 0
    /\ At(result, <<1, 1, 1>>) = 1
    /\ At(result, <<1, 1, 2>>) = 0

(***************************************************************************)
(* C7: create_causal_mask raises ValueError whenever no reference tensor   *)
(* is given and any one of batch_size, seq_len, device is missing; every   *)
(* other call returns the [batch, L, L] lower-triangular mask.             *)
(***************************************************************************)
CausalMaskErrors ==
    call.op = "create_causal_mask" =>
        IF call.x.none /\ (call.batch_size.none \/ call.seq_len.none
                              \/ call.device.none)
        THEN result.kind = "ValueError"
        ELSE LET B == IF call.x.none THEN call.batch_size.val
                      ELSE call.x.val.shape[1]
                 L == IF call.x.none THEN call.seq_len.val
                      ELSE call.x.val.shape[2]
             IN /\ result.kind = "ok"
                /\ result.value.shape = <<B, L, L>>
                /\ \A b \in 0..(B - 1), i \in 0..(L - 1), j \in 0..(L - 1) :
                     At(result.value, <<b, i, j>>) = IF j <= i THEN 1 ELSE 0

(***************************************************************************)
(* C8: in Transformer.forward the mask handed to the decoder layers has    *)
(* shape [batch_size, seq_len, seq_len], seq_len being the length of the   *)
(* hidden state, for all valid lengths in 1..seq_len.                      *)
(***************************************************************************)
ForwardMaskMatchesHidden ==
    call.op = "forward" =>
        result.decoder_mask.shape =
            <<result.hidden_shape[1], result.hidden_shape[2],
              result.hidden_shape[2]>>

(***************************************************************************)
(* One call into the attention component.  Tensor elements are the         *)
(* row-major position of the element plus an offset: every element of an   *)
(* input is distinct, so a moved element is a changed tensor.              *)
(***************************************************************************)
Iota(shape, c) ==
    [shape |-> shape, data |-> AsSeq([k \in 1..Numel(shape) |-> k - 1 + c])]

Masks01(shape) ==
    {[shape |-> shape, data |-> d] : d \in [1..Numel(shape) -> {0, 1}]}

SelfAttentionMasks ==
    {create_self_attention_mask(sl, causal) :
        sl \in Lengths(MaxAttnLen), causal \in BOOLEAN}

\* the bias of the linear layers
Biases == {0, 1}

CallReshapeBatches ==
    /\ Idle
    /\ \E b \in 1..MaxBatch, l \in 1..MaxLen, h \in 1..MaxHeads,
          sub \in 1..MaxSubDim, c \in 0..MaxOffset :
         LET x == Iota(<<b, l, h * sub>>, c)
             folded == reshape_to_batches(x, h)
         IN /\ call' = [op |-> "reshape_batches", x |-> x, head_num |-> h]
            /\ result' = [folded |-> folded,
                          back |-> reshape_from_batches(folded, h)]
    /\ GenUnchanged

CallReshapeAlignments ==
    /\ Idle
    /\ \E b \in 1..MaxBatch, h \in 1..MaxHeads, lq \in 1..MaxLen,
          lk \in 1..MaxLen, c \in 0..MaxOffset :
         LET a == Iota(<<b * h, lq, lk>>, c)
         IN /\ call' = [op |-> "reshape_alignments", alignments |-> a,
                        batch_size |-> b, head_num |-> h]
            /\ result' = reshape_alignments(a, h)
    /\ GenUnchanged

CallScaledDotProductAttention ==
    /\ Idle
    /\ \E lq \in 1..MaxAttnLen, lk \in 1..MaxAttnLen :
         \E qd \in [1..lq -> 0..1],
            mask \in Option(Masks01(<<1, lq, lk>>)) :
            LET q == [shape |-> <<1, lq, 1>>, data |-> AsSeq(qd)]
                k == Iota(<<1, lk, 1>>, 0)
                v == Iota(<<1, lk, 1>>, 1)
            IN /\ call' = [op |-> "sdpa", query |-> q, key |-> k,
                           value |-> v, mask |-> mask]
               /\ result' = SDPA_forward(q, k, v, mask)
    /\ GenUnchanged

CallMultiHeadAttention ==
    /\ Idle
    /\ \E h \in 1..MaxHeads, sub \in 1..MaxAttnDim, bias \in Biases,
          mask \in Option(SelfAttentionMasks) :
         \E b \in IF mask.none THEN 1..MaxBatch ELSE {mask.val.shape[1]},
            l \in IF mask.none THEN 1..MaxAttnLen ELSE {mask.val.shape[2]} :
            LET x == Iota(<<b, l, h * sub>>, 0)
            IN /\ call' = [op |-> "mha_forward", x |-> x, mask |-> mask,
                           head_num |-> h, bias |-> bias]
               /\ result' = MHA_forward(x, x, x, mask, h, bias)
    /\ GenUnchanged

NextAttention ==
    \/ CallReshapeBatches
    \/ CallReshapeAlignments
    \/ CallScaledDotProductAttention
    \/ CallMultiHeadAttention

SpecAttention == Init /\ [][NextAttention]_vars

(***************************************************************************)
(* C2: in MultiHeadAttention.forward the mask replicated for the folded    *)
(* batch holds, at the folded index b*head_num + h that                    *)
(* _reshape_to_batches gives to head h of example b, the mask of that      *)
(* same example b.                                                         *)
(***************************************************************************)
HeadSeesOwnMask ==
    (call.op = "mha_forward" /\ ~call.mask.none) =>
        LET m == call.mask.val
            B == m.shape[1]
            L == m.shape[2]
            H == call.head_num
        IN \A b \in 0..(B - 1), h \in 0..(H - 1),
              i \in 0..(L - 1), j \in 0..(L - 1) :
             At(result.mask.val, <<b * H + h, i, j>>) = At(m, <<b, i, j>>)

(***************************************************************************)
(* C5: _reshape_from_batches(_reshape_to_batches(x)) = x, and              *)
(* _reshape_to_batches puts x[b, l, h*sub_dim + d] at                      *)
(* [b*head_num + h, l, d].                                                 *)
(***************************************************************************)
ReshapeRoundTrip ==
    call.op = "reshape_batches" =>
        LET x == call.x
            B == x.shape[1]
            L == x.shape[2]
            H == call.head_num
            sub == x.shape[3] \div H
        IN /\ result.back = x
           /\ result.folded.shape = <<B * H, L, sub>>
           /\ \A b \in 0..(B - 1), l \in 0..(L - 1),
                 h \in 0..(H - 1), d \in 0..(sub - 1) :
                At(result.folded, <<b * H + h, l, d>>)
                    = At(x, <<b, l, h * sub + d>>)

\* several examples, several heads, several positions, several features
ReshapeRoundTripWitness ==
    /\ call.op = "reshape_batches"
    /\ call.x.shape = <<2, 2, 4>>
    /\ call.head_num = 2
    /\ result.folded.data # call.x.data
    /\ result.back = call.x

(***************************************************************************)
(* C6: with a mask, every attention weight where mask = 0 is exactly 0; a  *)
(* query row whose mask is all 0 has an all-zero weight row and an         *)
(* all-zero output row.                                                    *)
(***************************************************************************)
FullyMasked(mask, n, i) ==
    \A j \in 0..(mask.shape[3] - 1) : At(mask, <<n, i, j>>) = 0

MaskedWeightsZero ==
    /\ (call.op = "sdpa" /\ ~call.mask.none) =>
          LET m == call.mask.val
          IN \A n \in 0..(m.shape[1] - 1), i \in 0..(m.shape[2] - 1) :
               /\ \A j \in 0..(m.shape[3] - 1) :
                    At(m, <<n, i, j>>) = 0
                        => At(result.attention, <<n, i, j>>) = Zero
               /\ FullyMasked(m, n, i) =>
                    \A d \in 0..(result.y.shape[3] - 1) :
                       At(result.y, <<n, i, d>>)[1] = 0
    /\ (call.op = "mha_forward" /\ ~call.mask.none) =>
          LET m == result.mask.val
          IN \A n \in 0..(m.shape[1] - 1), i \in 0..(m.shape[2] - 1),
                j \in 0..(m.shape[3] - 1) :
               At(m, <<n, i, j>>) = 0
                   => At(result.attention, <<n, i, j>>) = Zero

\* a fully masked query row of two keys next to a row that attends
MaskedWeightsZeroWitness ==
    /\ call.op = "sdpa"
    /\ ~call.mask.none
    /\ call.mask.val.shape = <<1, 2, 2>>
    /\ FullyMasked(call.mask.val, 0, 0)
    /\ At(result.attention, <<0, 0, 0>>) = Zero
    /\ At(result.attention, <<0, 0, 1>>) = Zero
    /\ At(call.mask.val, <<0, 1, 1>>) = 1
    /\ At(result.attention, <<0, 1, 1>>)[1] > 0
    /\ At(result.y, <<0, 0, 0>>)[1] = 0
    /\ At(result.y, <<0, 1, 0>>)[1] > 0

(***************************************************************************)
(* C10: _reshape_alignments maps a of shape [batch*head_num, Lq, Lk] to r  *)
(* of shape [batch, head_num, Lq, Lk] with r[b,h,i,j] = a[b*head_num+h,i,j]*)
(***************************************************************************)
AlignmentsUnfolded ==
    call.op = "reshape_alignments" =>
        LET a == call.alignments
            B == call.batch_size
            H == call.head_num
            Lq == a.shape[2]
            Lk == a.shape[3]
        IN /\ result.shape = <<B, H, Lq, Lk>>
           /\ \A b \in 0..(B - 1), h \in 0..(H - 1),
                 i \in 0..(Lq - 1), j \in 0..(Lk - 1) :
                At(result, <<b, h, i, j>>) = At(a, <<b * H + h, i, j>>)

AlignmentsUnfoldedWitness ==
    /\ call.op = "reshape_alignments"
    /\ call.batch_size = 2
    /\ call.head_num = 2
    /\ call.alignments.shape = <<4, 2, 3>>
    /\ result.shape = <<2, 2, 2, 3>>
    /\ At(result, <<1, 0, 1, 2>>) = At(call.alignments, <<2, 1, 2>>)
    /\ At(result, <<0, 1, 0, 0>>) = At(call.alignments, <<1, 0, 0>>)

(***************************************************************************)
(* Transformer.generate.                                                   *)
(* pc: "idle" before the call, "loop" at the head of the for loop,         *)
(* "done" after the return, "raised" after an exception.  step is the      *)
(* value the loop variable takes in the next iteration.                    *)
(***************************************************************************)
Vocab == {0, 1}

\* temperatures: 1.0, and one so large that the scaled sentinel is small
Temperatures == {1, 100000000}

\* torch.zeros(batch_size).long().fill_(v) as a vector
Fill(batch_size, v) == AsSeq([b \in 1..batch_size |-> v])

\* output_ids.fill_(start_id).unsqueeze_(1)
start_ids(batch_size, start_id) ==
    [shape |-> <<batch_size, 1>>, data |-> Fill(batch_size, start_id)]

\* a loop that runs one iteration more
LoopContinuesInclusive(s, max_target_sequence_length) ==
    s <= max_target_sequence_length

\* for step in range(1, max_target_sequence_length)
LoopContinues(s, max_target_sequence_length) ==
    s < max_target_sequence_length

\* target_sequence_length.fill_(step)
target_lengths(batch_size, s) == Fill(batch_size, s)

\* a concatenation that puts the new column first
Cat1Front(a, choices) ==
    LET B == a.shape[1]
        n == a.shape[2]
    IN [shape |-> <<B, n + 1>>,
        data |-> AsSeq([k \in 1..(B * (n + 1)) |->
                          LET idx == Idx(<<B, n + 1>>, k)
                          IN IF idx[2] = 0 THEN choices[idx[1] + 1]
                             ELSE At(a, <<idx[1], idx[2] - 1>>)])]

\* torch.cat([a, choices], dim=1), a of shape [B, n], choices of shape [B, 1]
Cat1(a, choices) ==
    LET B == a.shape[1]
        n == a.shape[2]
    IN [shape |-> <<B, n + 1>>,
        data |-> AsSeq([k \in 1..(B * (n + 1)) |->
                          LET idx == Idx(<<B, n + 1>>, k)
                          IN IF idx[2] < n THEN At(a, idx)
                             ELSE choices[idx[1] + 1]])]

\* last_logits[:, mask_id] = -1e9 for each mask_id, on one example's row
mask_logits(row, mask_ids) ==
    [v \in Vocab |-> IF v \in mask_ids THEN Sentinel ELSE row[v]]

\* torch.softmax(last_logits / temperature, dim=1) on one example's row:
\* the numerators of the probabilities
probs(row, temperature) ==
    LET scaled == [v \in Vocab |-> row[v] \div temperature]
        m == CHOOSE x \in {scaled[v] : v \in Vocab} :
                 \A v \in Vocab : scaled[v] <= x
    IN [v \in Vocab |-> Exp(scaled[v] - m)]

\* torch.multinomial(probs, num_samples=1): any id of positive probability
multinomial(p) == {v \in Vocab : p[v] > 0}

\* the ids one example can draw in a step: the logits are the output of
\* the learned decoder stack and classifier, any row of finite logits
Samplable(mask_ids, temperature) ==
    UNION {multinomial(probs(mask_logits(row, mask_ids), temperature)) :
             row \in [Vocab -> 0..MaxLogit]}

GenerateCall ==
    /\ Idle
    /\ \E B \in 1..MaxBatch, T \in 0..MaxT, S \in Vocab,
          temperature \in Temperatures, mask_ids \in SUBSET Vocab :
         /\ gen' = Some([batch_size |-> B, max_target_sequence_length |-> T,
                         start_id |-> S, temperature |-> temperature,
                         mask_ids |-> mask_ids])
         /\ output_ids' = start_ids(B, S)
    /\ call' = [op |-> "generate"]
    /\ pc' = "loop"
    /\ step' = 1
    /\ UNCHANGED <<result, decoder_mask>>

GenerateStep ==
    /\ pc = "loop"
    /\ LoopContinues(step, gen.val.max_target_sequence_length)
    /\ LET B == gen.val.batch_size
           mask == create_self_attention_mask(target_lengths(B, step), TRUE)
           \* _encode_output_ids: only the length of the sequence decides
           \* whether the positional encoding raises
           emb == positional_encoding(<<B, output_ids.shape[2], 1>>)
           \* _decode: mask and scores are both folded head_num times along
           \* the batch axis, so they broadcast iff the unfolded shapes do
           scores_shape == <<B, output_ids.shape[2], output_ids.shape[2]>>
       IN /\ decoder_mask' = Some(mask)
          /\ IF emb.kind # "ok" \/ ~Broadcastable(mask.shape, scores_shape)
             THEN /\ pc' = "raised"
                  /\ UNCHANGED <<step, output_ids>>
             ELSE /\ \E choices \in [1..B -> Samplable(gen.val.mask_ids,
                                                       gen.val.temperature)] :
                        output_ids' = Cat1(output_ids, choices)
                  /\ step' = step + 1
                  /\ pc' = "loop"
    /\ UNCHANGED <<call, result, gen>>

GenerateReturn ==
    /\ pc = "loop"
    /\ ~LoopContinues(step, gen.val.max_target_sequence_length)
    /\ result' = [output_ids |-> output_ids]
    /\ pc' = "done"
    /\ UNCHANGED <<call, step, output_ids, decoder_mask, gen>>

NextGenerate ==
    \/ GenerateCall
    \/ GenerateStep
    \/ GenerateReturn

SpecGenerate == Init /\ [][NextGenerate]_vars

(***************************************************************************)
(* C3 as stated: whenever generate(B, T, S, ...) returns, output_ids has   *)
(* shape [B, T] and its first column is S for every example.               *)
(***************************************************************************)
GenerateShape ==
    pc = "done" =>
        LET B == gen.val.batch_size
            T == gen.val.max_target_sequence_length
        IN /\ result.output_ids.shape = <<B, T>>
           /\ \A b \in 0..(B - 1) :
                At(result.output_ids, <<b, 0>>) = gen.val.start_id

(***************************************************************************)
(* C3 amended: whenever generate(B, T, S, ...) with T >= 1 returns,        *)
(* output_ids has shape [B, T], its first column is S for every example,   *)
(* and the loop variable has run up to T.                                  *)
(***************************************************************************)
GenerateShapePositiveT ==
    (pc = "done" /\ gen.val.max_target_sequence_length >= 1) =>
        LET B == gen.val.batch_size
            T == gen.val.max_target_sequence_length
        IN /\ result.output_ids.shape = <<B, T>>
           /\ Len(result.output_ids.data) = B * T
           /\ step = T
           /\ \A b \in 0..(B - 1) :
                At(result.output_ids, <<b, 0>>) = gen.val.start_id

\* a returned batch of two examples of three tokens with sampled tokens
\* that differ from the start token
GenerateShapeWitness ==
    /\ pc = "done"
    /\ gen.val.batch_size = 2
    /\ gen.val.max_target_sequence_length = 3
    /\ gen.val.start_id = 1
    /\ result.output_ids.shape = <<2, 3>>
    /\ At(result.output_ids, <<0, 1>>) = 0
    /\ At(result.output_ids, <<1, 2>>) = 0

(***************************************************************************)
(* C4: every token sampled at positions 1..T-1 of every example lies       *)
(* outside mask_ids, for every forbidden-id set mask_ids.                  *)
(***************************************************************************)
NoForbiddenIdSampled ==
    pc \in {"loop", "done"} =>
        \A b \in 0..(output_ids.shape[1] - 1),
           i \in 1..(output_ids.shape[2] - 1) :
           At(output_ids, <<b, i>>) \notin gen.val.mask_ids

(***************************************************************************)
(* C9: at the start of every loop iteration with counter value step the    *)
(* sequence generated so far has length step for every example; the mask   *)
(* built in the iteration is the [B, step, step] lower-triangular mask     *)
(* with all positions valid; the iteration appends exactly one token per   *)
(* example and leaves the earlier tokens unchanged.                        *)
(***************************************************************************)
IterationBody ==
    (pc = "loop" /\ LoopContinues(step, gen.val.max_target_sequence_length))
      => LET B == gen.val.batch_size
         IN /\ step >= 1
            /\ output_ids.shape = <<B, step>>
            /\ pc' = "loop"
            /\ step' = step + 1
            /\ decoder_mask'.val.shape = <<B, step, step>>
            /\ \A b \in 0..(B - 1), i \in 0..(step - 1), j \in 0..(step - 1) :
                 At(decoder_mask'.val, <<b, i, j>>) = IF j <= i THEN 1 ELSE 0
            /\ output_ids'.shape = <<B, step + 1>>
            /\ Len(output_ids'.data) = B * (step + 1)
            /\ \A b \in 0..(B - 1) :
                 /\ At(output_ids', <<b, step>>) \in Vocab
                 /\ \A i \in 0..(step - 1) :
                      At(output_ids', <<b, i>>) = At(output_ids, <<b, i>>)

IterationAppendsOne == [][IterationBody]_vars

\* the head of the third iteration of a batch of two, after two iterations
\* that appended different tokens
IterationAppendsOneWitness ==
    /\ pc = "loop"
    /\ step = 3
    /\ gen.val.batch_size = 2
    /\ output_ids.shape = <<2, 3>>
    /\ decoder_mask.val.shape = <<2, 2, 2>>
    /\ At(output_ids, <<0, 1>>) # At(output_ids, <<0, 2>>)

====
